---- MODULE Spec2Model ----
(***************************************************************************)
(* Model of the memphis tree-walking interpreter core:                      *)
(*   - treewalk/type_registry.rs : bootstrap of the builtin type classes    *)
(*     and the TypeRegistry queries;                                        *)
(*   - treewalk/scope.rs : Scope::new (argument binding) and the Scope      *)
(*     storage operations.                                                  *)
(* Class objects and Scope objects are shared handles (Container<T>); a     *)
(* class is modelled by its index in `heap`, so "the same class object"     *)
(* is equality of indices.                                                  *)
(***************************************************************************)
EXTENDS Integers, Sequences, FiniteSets, TLC

VARIABLES
    \* ---- type_registry.rs ----
    heap,          \* every Class allocated so far (Container<Class> = index)
    type_classes,  \* the HashMap<Type, Container<Class>> being built / held
    rpc,           \* position inside init_type_classes / TypeRegistry::new
    tidx,          \* index of the loop over all_types()
    type_cls,      \* local `type_class` of init_type_classes
    object_cls,    \* local `object_class` of init_type_classes
    class,         \* local `class` of the loop body
    methods,       \* keys left in the local `methods` map
    attributes,    \* keys left in the local `attributes` map
    rresult,       \* result of the last registry query
    \* ---- scope.rs, Scope::new ----
    function,      \* the Function being invoked
    arguments,     \* the ResolvedArguments of the call
    bpc,           \* position inside Scope::new
    index,         \* loop index over function_args.args
    scope,         \* local `scope` of Scope::new
    missing_args,  \* local `missing_args`
    eval_log,      \* parameter indices handed to interpreter.evaluate_expr, in order
    bresult,       \* what Scope::new returned
    \* ---- scope.rs, storage operations ----
    s,             \* a live Scope
    last_op,       \* the last operation applied to s, with what it returned
    bound_hist,    \* history: per name, value of the latest insert not followed by delete
    global_hist,   \* history: names mark_global was called with
    nonlocal_hist  \* history: names mark_nonlocal was called with

regVars == <<heap, type_classes, rpc, tidx, type_cls, object_cls, class,
             methods, attributes, rresult>>
bindVars == <<function, arguments, bpc, index, scope, missing_args, eval_log,
              bresult>>
scopeVars == <<s, last_op, bound_hist, global_hist, nonlocal_hist>>
vars == <<regVars, bindVars, scopeVars>>

\* Option::None / Option::Some
NoValue == [tag |-> "None"]
Some(v) == [tag |-> "Some", some |-> v]

Range(f) == {f[i] : i \in DOMAIN f}

(***************************************************************************)
(*                         type_registry.rs                                *)
(***************************************************************************)

\* Keys of the map returned by builtin_methods().
builtin_methods ==
    {"Super", "Bool", "Int", "Str", "List", "Set", "FrozenSet", "Tuple", "Dict",
     "Range", "Slice", "Zip", "ReversedIterator", "Bytes", "Complex", "ByteArray",
     "Memoryview", "Coroutine", "Classmethod", "Staticmethod", "Property"}

\* Keys of the map returned by descriptors().
descriptors == {"Function", "Exception", "Traceback"}

all_types ==
    <<"Super", "GetSetDescriptor", "MemberDescriptor", "Method", "Function",
      "BuiltinFunction", "BuiltinMethod", "Generator", "Coroutine", "None",
      "Ellipsis", "NotImplemented", "Bool", "Int", "Str", "List", "Set",
      "FrozenSet", "Zip", "Tuple", "Range", "Slice", "Complex", "Bytes",
      "ByteArray", "Memoryview", "Dict", "DictItems", "DictKeys", "DictValues",
      "MappingProxy", "DictItemIterator", "DictKeyIterator", "DictValueIterator",
      "BytesIterator", "ByteArrayIterator", "RangeIterator", "StringIterator",
      "ListIterator", "ReversedIterator", "SetIterator", "TupleIterator",
      "Exception", "Traceback", "Frame", "Module", "Cell", "Code",
      "Classmethod", "Staticmethod", "Property">>

\* callable_types() without its third entry
callable_types_nosuper ==
    <<"Type", "Object", "Bool", "Int", "Str", "List", "Dict", "Set",
      "FrozenSet", "Tuple", "Range", "Slice", "Complex", "Bytes", "ByteArray",
      "Memoryview", "Zip", "ReversedIterator", "Classmethod", "Staticmethod",
      "Property", "Exception">>

callable_types ==
    <<"Type", "Object", "Super", "Bool", "Int", "Str", "List", "Dict", "Set",
      "FrozenSet", "Tuple", "Range", "Slice", "Complex", "Bytes", "ByteArray",
      "Memoryview", "Zip", "ReversedIterator", "Classmethod", "Staticmethod",
      "Property", "Exception">>

\* The tags of the Type enumeration this file names.
TypeTags == {"Type", "Object", "TypeMeta", "ObjectMeta"} \cup Range(all_types)

\* Class::new_builtin(type, metaclass, parents): metaclass 0 is None.
Class_new_builtin(type_, metaclass, parents) ==
    [builtin_type |-> type_, metaclass |-> metaclass, parents |-> parents,
     attrs |-> {}]

\* class.set_on_class(name, value) for every item of one get_methods() /
\* get_descriptors() list; `what` names that list.
set_on_class(cls, what) == [cls EXCEPT !.attrs = @ \cup {what}]

\* class.borrow().builtin_type()
builtin_type(cls) == cls.builtin_type

\* fn type_class(): allocates the two placeholder classes and the Type class
\* after the classes already in h; the Type class is the last one.
type_class(h) ==
    LET object_base == set_on_class(Class_new_builtin("ObjectMeta", 0, <<>>),
                                    "Object::get_methods")
        type_base == set_on_class(set_on_class(
                         Class_new_builtin("TypeMeta", 0, <<>>),
                         "TypeClass::get_methods"), "TypeClass::get_descriptors")
        tc == set_on_class(set_on_class(
                  Class_new_builtin("Type", Len(h) + 2, <<Len(h) + 1>>),
                  "TypeClass::get_methods"), "TypeClass::get_descriptors")
    IN  h \o <<object_base, type_base, tc>>

\* fn object_class(metaclass)
object_class(metaclass) ==
    set_on_class(set_on_class(set_on_class(
        Class_new_builtin("Object", metaclass, <<>>),
        "Object::get_methods"), "Object::get_descriptors"), "__dict__")

\* init_type_classes, lines 227-231
InitTypeClass ==
    /\ UNCHANGED <<bindVars, scopeVars>>
    /\ rpc = "start"
    /\ heap' = type_class(heap)
    /\ type_cls' = Len(heap')
    /\ type_classes' = [t \in {"Type"} |-> type_cls']
    /\ rpc' = "object"
    /\ UNCHANGED <<tidx, object_cls, class, methods, attributes, rresult>>

\* h with the key k set to v (HashMap::insert)
MapInsert(h, k, v) == [x \in DOMAIN h \cup {k} |-> IF x = k THEN v ELSE h[x]]

\* init_type_classes, lines 235-245
InitObjectClass ==
    /\ UNCHANGED <<bindVars, scopeVars>>
    /\ rpc = "object"
    /\ heap' = Append(heap, object_class(type_cls))
    /\ object_cls' = Len(heap')
    /\ type_classes' = MapInsert(type_classes, "Object", object_cls')
    /\ methods' = builtin_methods
    /\ attributes' = descriptors
    /\ tidx' = 1
    /\ rpc' = "loop"
    /\ UNCHANGED <<type_cls, class, rresult>>

\* line 247 with an empty parent list
LoopNewClass_noparent(t) == Class_new_builtin(t, type_cls, <<>>)

\* line 247: the class of one tag of all_types()
LoopNewClass(t) == Class_new_builtin(t, type_cls, <<object_cls>>)

\* init_type_classes, lines 246-248 (and 276 when the loop is over)
InitLoopCreate ==
    /\ UNCHANGED <<bindVars, scopeVars>>
    /\ rpc = "loop"
    /\ IF tidx <= Len(all_types)
         THEN /\ heap' = Append(heap, LoopNewClass(all_types[tidx]))
              /\ class' = Len(heap')
              /\ rpc' = "methods"
              /\ UNCHANGED type_classes
         ELSE /\ rpc' = "done"
              /\ UNCHANGED <<heap, class, type_classes>>
    /\ UNCHANGED <<tidx, type_cls, object_cls, methods, attributes, rresult>>

\* init_type_classes, lines 254-261
InitLoopMethods ==
    /\ UNCHANGED <<bindVars, scopeVars>>
    /\ rpc = "methods"
    /\ LET bt == builtin_type(heap[class])
       IN  IF bt \in methods
             THEN /\ methods' = methods \ {bt}
                  /\ heap' = [heap EXCEPT ![class] = set_on_class(@, "get_methods")]
             ELSE UNCHANGED <<methods, heap>>
    /\ rpc' = "attributes"
    /\ UNCHANGED <<type_classes, tidx, type_cls, object_cls, class, attributes, rresult>>

\* init_type_classes, lines 264-273
InitLoopAttributes ==
    /\ UNCHANGED <<bindVars, scopeVars>>
    /\ rpc = "attributes"
    /\ LET bt == builtin_type(heap[class])
       IN  /\ IF bt \in attributes
                THEN /\ attributes' = attributes \ {bt}
                     /\ heap' = [heap EXCEPT ![class] = set_on_class(@, "get_descriptors")]
                ELSE UNCHANGED <<attributes, heap>>
           /\ type_classes' = MapInsert(type_classes, bt, class)
    /\ tidx' = tidx + 1
    /\ rpc' = "loop"
    /\ UNCHANGED <<type_cls, object_cls, class, methods, rresult>>

\* TypeRegistry::get_type_class: the class, or the panic of unwrap_or_else
get_type_class(type_) ==
    IF type_ \in DOMAIN type_classes
      THEN [tag |-> "Class", id |-> type_classes[type_]]
      ELSE [tag |-> "panic"]

\* TypeRegistry::get_callable_builtin_types: a panic of get_type_class unwinds
\* through the map/collect
get_callable_builtin_types ==
    IF \E i \in DOMAIN callable_types : get_type_class(callable_types[i]).tag = "panic"
      THEN [tag |-> "panic"]
      ELSE [tag |-> "Classes",
            ids |-> [i \in DOMAIN callable_types |-> get_type_class(callable_types[i]).id]]

\* a call of registry.get_type_class(type_)
GetTypeClass ==
    /\ UNCHANGED <<bindVars, scopeVars>>
    /\ rpc = "done"
    /\ \E t \in TypeTags :
         rresult' = [op |-> "get_type_class", arg |-> t, ret |-> get_type_class(t)]
    /\ UNCHANGED <<heap, type_classes, rpc, tidx, type_cls, object_cls, class,
                   methods, attributes>>

\* a call of registry.get_callable_builtin_types()
GetCallableBuiltinTypes ==
    /\ UNCHANGED <<bindVars, scopeVars>>
    /\ rpc = "done"
    /\ rresult' = [op |-> "get_callable_builtin_types", arg |-> "",
                   ret |-> get_callable_builtin_types]
    /\ UNCHANGED <<heap, type_classes, rpc, tidx, type_cls, object_cls, class,
                   methods, attributes>>

InitRegistry ==
    /\ heap = <<>>
    /\ type_classes = <<>>
    /\ rpc = "start"
    /\ tidx = 0
    /\ type_cls = 0
    /\ object_cls = 0
    /\ class = 0
    /\ methods = {}
    /\ attributes = {}
    /\ rresult = NoValue

(***************************************************************************)
(*                              scope.rs                                   *)
(***************************************************************************)

\* Largest number of declared parameters of a modelled function.
MaxParams == 3
\* Largest number of positional arguments of a modelled call.
MaxArgs == 4
\* Width of usize in the model. TLC's integers are 32-bit, so the model's
\* usize is narrower than the target's; a wrapped difference exceeds every
\* argument count at any width above MaxArgs.
UsizeBits == 16

UsizeModulus == 2 ^ UsizeBits

\* ExprResult values
Integer(n) == [tag |-> "Int", int |-> n]
String(str) == [tag |-> "String", str |-> str]
Tuple(items) == [tag |-> "Tuple", items |-> items]
Dict(items) == [tag |-> "Dict", map |-> items]
Void == [tag |-> "Void"]

\* h with the key k removed (HashMap::remove)
MapRemove(h, k) == [x \in DOMAIN h \ {k} |-> h[x]]

\* Scope::default()
Scope_default == [symbol_table |-> <<>>, global_vars |-> {}, nonlocal_vars |-> {}]

\* Scope::from_hash
from_hash(symbol_table) ==
    [symbol_table |-> symbol_table, global_vars |-> {}, nonlocal_vars |-> {}]

\* Scope::get
get(sc, name) ==
    IF name \in DOMAIN sc.symbol_table THEN Some(sc.symbol_table[name]) ELSE NoValue

\* Scope::symbols
symbols(sc) == DOMAIN sc.symbol_table

\* Scope::delete: the scope afterwards (the removed value is get(sc, name))
delete(sc, name) == [sc EXCEPT !.symbol_table = MapRemove(@, name)]

\* Scope::insert
insert(sc, name, value) == [sc EXCEPT !.symbol_table = MapInsert(@, name, value)]

\* Scope::mark_global that also binds the name
mark_global_binds(sc, name) ==
    [sc EXCEPT !.global_vars = @ \cup {name},
               !.symbol_table = MapInsert(@, name, Void)]

\* Scope::mark_global
mark_global(sc, name) == [sc EXCEPT !.global_vars = @ \cup {name}]

\* Scope::mark_nonlocal
mark_nonlocal(sc, name) == [sc EXCEPT !.nonlocal_vars = @ \cup {name}]

\* Scope::has_global
has_global(sc, name) == name \in sc.global_vars

\* Scope::has_nonlocal
has_nonlocal(sc, name) == name \in sc.nonlocal_vars

\* ---- the inputs of Scope::new ----

NamePool == <<"a", "b", "c", "d", "e">>
ParamNames == {NamePool[i] : i \in 1..MaxParams}

\* Default expressions: a literal, and an expression whose evaluation fails.
DefaultExprs == {"nine", "undefined_name"}

\* interpreter.evaluate_expr
evaluate_expr(expr) ==
    IF expr = "nine" THEN [tag |-> "Ok", ok |-> Integer(9)]
    ELSE [tag |-> "Err", err |-> [kind |-> "NameError", expr |-> expr]]

\* interpreter.state.call_stack()
call_stack == "call_stack"

IsInjective(q) == \A i, j \in DOMAIN q : q[i] = q[j] => i = j

\* Parameter lists: distinct names, each with an optional default expression.
ParamLists ==
    UNION {
        {[i \in 1..k |-> [arg |-> names[i], default |-> defs[i]]] :
            names \in {q \in [1..k -> ParamNames] : IsInjective(q)},
            defs \in [1..k -> {NoValue} \cup {Some(e) : e \in DefaultExprs}]} :
        k \in 0..MaxParams}

Functions ==
    [name : {"f"},
     args : ParamLists,
     args_var : {NoValue, Some("args")},
     kwargs_var : {NoValue, Some("kwargs")}]

\* Calls: the i-th positional value is Integer(i); no keyword left over, or x=9.
ResolvedArgumentsSet ==
    [args : {[i \in 1..j |-> Integer(i)] : j \in 0..MaxArgs},
     kwargs : {<<>>, [k \in {String("x")} |-> Integer(9)]}]

\* ResolvedArguments::bound_args
bound_args_of(a) == a.args
\* ResolvedArguments::bound_len
bound_len(a) == Len(bound_args_of(a))
\* ResolvedArguments::len
len(a) == Len(a.args)
\* ResolvedArguments::get_kwargs
get_kwargs(a) == a.kwargs

\* ---- helpers of Scope::new ----

RECURSIVE Rev(_)
\* Iterator::rev over a slice
Rev(q) == IF q = <<>> THEN <<>> ELSE Append(Rev(Tail(q)), Head(q))

\* Iterator::take
Take(q, n) == IF n >= Len(q) THEN q ELSE SubSeq(q, 1, n)

\* line 96 without the second rev()
left_over_norev(bound_args, extra) == Take(Rev(bound_args), extra)

\* line 96: bound_args.iter().rev().take(extra).rev().cloned().collect()
left_over(bound_args, extra) == Rev(Take(Rev(bound_args), extra))

RECURSIVE join(_, _)
\* [String]::join
join(q, sep) ==
    IF q = <<>> THEN ""
    ELSE IF Len(q) = 1 THEN q[1]
    ELSE q[1] \o sep \o join(Tail(q), sep)

\* line 78: format!("'{}'", a)
quote(a) == "'" \o a \o "'"

\* lines 70-87 with the names joined by ", "
missing_message_comma(fname, missing) ==
    LET num_missing == Len(missing)
        noun == IF num_missing = 1 THEN "argument" ELSE "arguments"
        arg_names == join([i \in DOMAIN missing |-> quote(missing[i])], ", ")
    IN  fname \o "() missing " \o ToString(num_missing) \o " required positional "
          \o noun \o ": " \o arg_names

\* lines 70-87: the message of the missing-arguments TypeError
missing_message(fname, missing) ==
    LET num_missing == Len(missing)
        noun == IF num_missing = 1 THEN "argument" ELSE "arguments"
        arg_names == join([i \in DOMAIN missing |-> quote(missing[i])], " and ")
    IN  fname \o "() missing " \o ToString(num_missing) \o " required positional "
          \o noun \o ": " \o arg_names

\* line 37 off by one
too_many_args_off(f, a) == Len(f.args) + 1 < bound_len(a) /\ f.args_var = NoValue

\* line 37: the arity pre-check
too_many_args(f, a) == Len(f.args) < bound_len(a) /\ f.args_var = NoValue

\* Scope::new, lines 31-46
ScopeNewCall ==
    /\ UNCHANGED <<regVars, scopeVars>>
    /\ bpc = "idle"
    /\ \E f \in Functions, a \in ResolvedArgumentsSet :
         /\ function' = f
         /\ arguments' = a
         /\ scope' = Scope_default
         /\ eval_log' = <<>>
         /\ missing_args' = <<>>
         /\ index' = 0
         /\ IF too_many_args(f, a)
              THEN /\ bresult' = [tag |-> "Err",
                                  err |-> [kind |-> "WrongNumberOfArguments",
                                           expected |-> Len(f.args),
                                           got |-> bound_len(a),
                                           call_stack |-> call_stack]]
                   /\ bpc' = "returned"
              ELSE /\ bpc' = "loop"
                   /\ UNCHANGED bresult

\* line 50 off by one
is_provided_off(i, bound_args) == i + 1 < Len(bound_args)

\* line 50: is the parameter at `i` (0-based) given a positional value
is_provided(i, bound_args) == i < Len(bound_args)

\* Scope::new, lines 48-66: one iteration of the loop over function_args.args
ScopeNewBindParam ==
    /\ UNCHANGED <<regVars, scopeVars>>
    /\ bpc = "loop"
    /\ index < Len(function.args)
    /\ LET arg_definition == function.args[index + 1]
           bound_args == bound_args_of(arguments)
       IN  IF is_provided(index, bound_args)
             THEN /\ scope' = insert(scope, arg_definition.arg, bound_args[index + 1])
                  /\ index' = index + 1
                  /\ UNCHANGED <<missing_args, eval_log, bresult, bpc>>
             ELSE IF arg_definition.default # NoValue
               THEN LET r == evaluate_expr(arg_definition.default.some)
                    IN  /\ eval_log' = Append(eval_log, index)
                        /\ IF r.tag = "Ok"
                             THEN /\ scope' = insert(scope, arg_definition.arg, r.ok)
                                  /\ index' = index + 1
                                  /\ UNCHANGED <<missing_args, bresult, bpc>>
                             ELSE /\ bresult' = [tag |-> "Err", err |-> r.err]
                                  /\ bpc' = "returned"
                                  /\ UNCHANGED <<scope, index, missing_args>>
               ELSE /\ missing_args' = Append(missing_args, arg_definition.arg)
                    /\ scope' = insert(scope, arg_definition.arg, Void)
                    /\ index' = index + 1
                    /\ UNCHANGED <<eval_log, bresult, bpc>>
    /\ UNCHANGED <<function, arguments>>

\* Scope::new, lines 68-92
ScopeNewCheckMissing ==
    /\ UNCHANGED <<regVars, scopeVars>>
    /\ bpc = "loop"
    /\ index = Len(function.args)
    /\ IF missing_args # <<>>
         THEN /\ bresult' = [tag |-> "Err",
                             err |-> [kind |-> "TypeError",
                                      message |-> Some(missing_message(function.name,
                                                                       missing_args)),
                                      call_stack |-> call_stack]]
              /\ bpc' = "returned"
         ELSE /\ bpc' = "args_var"
              /\ UNCHANGED bresult
    /\ UNCHANGED <<function, arguments, index, scope, missing_args, eval_log>>

\* Scope::new, lines 94-99. The usize subtraction of line 95 panics in a build
\* with overflow checks and wraps in a build without them.
ScopeNewArgsVar ==
    /\ UNCHANGED <<regVars, scopeVars>>
    /\ bpc = "args_var"
    /\ IF function.args_var = NoValue
         THEN /\ bpc' = "kwargs_var"
              /\ UNCHANGED <<scope, bresult>>
         ELSE \E overflow_checks \in BOOLEAN :
                IF len(arguments) < Len(function.args) /\ overflow_checks
                  THEN /\ bresult' = [tag |-> "panic",
                                      message |-> "attempt to subtract with overflow"]
                       /\ bpc' = "returned"
                       /\ UNCHANGED scope
                  ELSE LET extra == (len(arguments) - Len(function.args)) % UsizeModulus
                           args_value == Tuple(left_over(bound_args_of(arguments), extra))
                       IN  /\ scope' = insert(scope, function.args_var.some, args_value)
                           /\ bpc' = "kwargs_var"
                           /\ UNCHANGED bresult
    /\ UNCHANGED <<function, arguments, index, missing_args, eval_log>>

\* Scope::new, lines 101-106
ScopeNewKwargsVar ==
    /\ UNCHANGED <<regVars, scopeVars>>
    /\ bpc = "kwargs_var"
    /\ LET final == IF function.kwargs_var = NoValue THEN scope
                    ELSE insert(scope, function.kwargs_var.some,
                                Dict(get_kwargs(arguments)))
       IN  /\ scope' = final
           /\ bresult' = [tag |-> "Ok", ok |-> final]
    /\ bpc' = "returned"
    /\ UNCHANGED <<function, arguments, index, missing_args, eval_log>>

InitBind ==
    /\ function = NoValue
    /\ arguments = NoValue
    /\ bpc = "idle"
    /\ index = 0
    /\ scope = Scope_default
    /\ missing_args = <<>>
    /\ eval_log = <<>>
    /\ bresult = NoValue

\* ---- the storage operations on a live Scope ----

\* Largest number of distinct names used on the live Scope.
MaxNames == 2

ScopeNames == {NamePool[i] : i \in 1..MaxNames}
ScopeValues == {Integer(1), String("a")}

\* Scope::as_dict storing the key where the value belongs
as_dict_keys(sc) ==
    Dict([k \in {String(key) : key \in DOMAIN sc.symbol_table} |-> k])

\* Scope::as_dict
as_dict(sc) ==
    Dict([k \in {String(key) : key \in DOMAIN sc.symbol_table} |-> sc.symbol_table[k.str]])

\* The DictItems of a Dict: its key/value pairs as 2-tuples, in the order `keys`
dict_items(d, keys) == [i \in DOMAIN keys |-> Tuple(<<keys[i], d.map[keys[i]]>>)]

\* The orders in which a Dict's keys can be iterated
KeyOrders(d) ==
    {q \in [1..Cardinality(DOMAIN d.map) -> DOMAIN d.map] : IsInjective(q)}

\* ExprResult::as_tuple
as_tuple(v) == IF v.tag = "Tuple" THEN Some(v.items) ELSE NoValue
\* ExprResult::as_string
as_string(v) == IF v.tag = "String" THEN Some(v.str) ELSE NoValue
\* Tuple::first / Tuple::second
first(items) == items[1]
second(items) == items[2]

RECURSIVE from_dict_loop(_, _)
\* Scope::from_dict, lines 170-175: the symbol table after the items of `dict`,
\* or the panic of an unwrap
from_dict_loop(symbol_table, dict) ==
    IF dict = <<>> THEN [tag |-> "Ok", ok |-> symbol_table]
    ELSE LET tuple == as_tuple(Head(dict))
         IN  IF tuple = NoValue THEN [tag |-> "panic"]
             ELSE LET key == as_string(first(tuple.some))
                      value == second(tuple.some)
                  IN  IF key = NoValue THEN [tag |-> "panic"]
                      ELSE from_dict_loop(MapInsert(symbol_table, key.some, value),
                                          Tail(dict))

\* Scope::from_dict
from_dict(dict) ==
    LET r == from_dict_loop(<<>>, dict)
    IN  IF r.tag = "panic" THEN r ELSE [tag |-> "Ok", ok |-> from_hash(r.ok)]

\* scope.insert(name, value)
Insert ==
    /\ UNCHANGED <<regVars, bindVars>>
    /\ \E name \in ScopeNames, value \in ScopeValues :
         /\ s' = insert(s, name, value)
         /\ last_op' = [op |-> "insert", name |-> name]
         /\ bound_hist' = [bound_hist EXCEPT ![name] = Some(value)]
    /\ UNCHANGED <<global_hist, nonlocal_hist>>

\* scope.delete(name)
Delete ==
    /\ UNCHANGED <<regVars, bindVars>>
    /\ \E name \in ScopeNames :
         /\ s' = delete(s, name)
         /\ last_op' = [op |-> "delete", name |-> name, ret |-> get(s, name)]
         /\ bound_hist' = [bound_hist EXCEPT ![name] = NoValue]
    /\ UNCHANGED <<global_hist, nonlocal_hist>>

\* scope.mark_global(name)
MarkGlobal ==
    /\ UNCHANGED <<regVars, bindVars>>
    /\ \E name \in ScopeNames :
         /\ s' = mark_global(s, name)
         /\ last_op' = [op |-> "mark_global", name |-> name]
         /\ global_hist' = global_hist \cup {name}
    /\ UNCHANGED <<bound_hist, nonlocal_hist>>

\* scope.mark_nonlocal(name)
MarkNonlocal ==
    /\ UNCHANGED <<regVars, bindVars>>
    /\ \E name \in ScopeNames :
         /\ s' = mark_nonlocal(s, name)
         /\ last_op' = [op |-> "mark_nonlocal", name |-> name]
         /\ nonlocal_hist' = nonlocal_hist \cup {name}
    /\ UNCHANGED <<bound_hist, global_hist>>

\* Scope::from_dict over the items of scope.as_dict()
RoundTrip ==
    /\ UNCHANGED <<regVars, bindVars>>
    /\ LET d == as_dict(s)
       IN  \E keys \in KeyOrders(d) :
             last_op' = [op |-> "from_dict", ret |-> from_dict(dict_items(d, keys))]
    /\ UNCHANGED <<s, bound_hist, global_hist, nonlocal_hist>>

InitScope ==
    /\ s = Scope_default
    /\ last_op = [op |-> "default"]
    /\ bound_hist = [n \in ScopeNames |-> NoValue]
    /\ global_hist = {}
    /\ nonlocal_hist = {}

(***************************************************************************)
(*                           Specifications                                *)
(***************************************************************************)

Init == InitRegistry /\ InitBind /\ InitScope

NextRegistry ==
    \/ InitTypeClass
    \/ InitObjectClass
    \/ InitLoopCreate
    \/ InitLoopMethods
    \/ InitLoopAttributes
    \/ GetTypeClass
    \/ GetCallableBuiltinTypes

NextBind ==
    \/ ScopeNewCall
    \/ ScopeNewBindParam
    \/ ScopeNewCheckMissing
    \/ ScopeNewArgsVar
    \/ ScopeNewKwargsVar

NextScope ==
    \/ Insert
    \/ Delete
    \/ MarkGlobal
    \/ MarkNonlocal
    \/ RoundTrip

\* TypeRegistry::new followed by queries
SpecRegistry == Init /\ [][NextRegistry]_vars
\* one call of Scope::new
SpecBind == Init /\ [][NextBind]_vars
\* the storage operations on one Scope
SpecScope == Init /\ [][NextScope]_vars

(***************************************************************************)
(*                               Claims                                    *)
(***************************************************************************)

\* The class of a tag in the finished registry
ClassOf(t) == heap[get_type_class(t).id]

\* C1: after bootstrap, the metaclass link of get_type_class(Type) is the very
\* class get_type_class(Type) returns.
C1_TypeIsItsOwnMetaclass ==
    rpc = "done" =>
        /\ get_type_class("Type").tag = "Class"
        /\ ClassOf("Type").metaclass = get_type_class("Type").id

\* C2: after bootstrap the registry holds exactly one class per tag for Type,
\* Object and every tag of all_types, get_type_class succeeds for each; Object
\* has the real Type class as metaclass and no parents; every class of
\* all_types has the real Type class as metaclass and parents = [Object].
C2_BootstrapWiring ==
    rpc = "done" =>
        LET tags == {"Type", "Object"} \cup Range(all_types)
            T == get_type_class("Type")
            O == get_type_class("Object")
        IN  /\ DOMAIN type_classes = tags
            /\ Cardinality(tags) = Len(all_types) + 2
            /\ \A t \in tags :
                 /\ get_type_class(t).tag = "Class"
                 /\ ClassOf(t).builtin_type = t
            /\ \A t1, t2 \in tags :
                 get_type_class(t1).id = get_type_class(t2).id => t1 = t2
            /\ ClassOf("Object").metaclass = T.id
            /\ ClassOf("Object").parents = <<>>
            /\ \A i \in DOMAIN all_types :
                 /\ ClassOf(all_types[i]).metaclass = T.id
                 /\ ClassOf(all_types[i]).parents = <<O.id>>

C2_Witness ==
    /\ rpc = "done"
    /\ rresult # NoValue
    /\ rresult.op = "get_type_class"
    /\ rresult.arg = "Property"
    /\ rresult.ret.tag = "Class"

\* The callable-types set as the specification lists it
SpecCallableSet ==
    {"Type", "Object", "Bool", "Int", "Str", "List", "Dict", "Set", "FrozenSet",
     "Tuple", "Range", "Slice", "Complex", "Bytes", "ByteArray", "Memoryview",
     "Zip", "ReversedIterator", "Classmethod", "Staticmethod", "Property",
     "Exception"}

CallableQueryDone ==
    /\ rresult # NoValue
    /\ rresult.op = "get_callable_builtin_types"

\* C3 as stated: get_callable_builtin_types() returns, without panicking, the
\* registered classes of exactly the specification's callable-types set.
C3_ExactlySpecCallableSet ==
    CallableQueryDone =>
        /\ rresult.ret.tag = "Classes"
        /\ {heap[rresult.ret.ids[i]].builtin_type : i \in DOMAIN rresult.ret.ids}
             = SpecCallableSet

\* C3 amended: get_callable_builtin_types() returns, without panicking and in
\* this order, the registered classes of type, object, super, bool, int, str,
\* list, dict, set, frozenset, tuple, range, slice, complex, bytes, bytearray,
\* memoryview, zip, reversed-iterator, classmethod, staticmethod, property,
\* exception: the specification's set and super.
C3_CallableSetWithSuper ==
    CallableQueryDone =>
        LET order == <<"Type", "Object", "Super", "Bool", "Int", "Str", "List",
                       "Dict", "Set", "FrozenSet", "Tuple", "Range", "Slice",
                       "Complex", "Bytes", "ByteArray", "Memoryview", "Zip",
                       "ReversedIterator", "Classmethod", "Staticmethod",
                       "Property", "Exception">>
        IN  /\ rresult.ret.tag = "Classes"
            /\ Len(rresult.ret.ids) = Len(order)
            /\ \A i \in DOMAIN order :
                 /\ rresult.ret.ids[i] = type_classes[order[i]]
                 /\ heap[rresult.ret.ids[i]].builtin_type = order[i]
            /\ Range(order) = SpecCallableSet \cup {"Super"}

C3_Witness ==
    /\ CallableQueryDone
    /\ rresult.ret.tag = "Classes"
    /\ heap[rresult.ret.ids[3]].builtin_type = "Super"

\* The call being bound
Called == bpc # "idle"
NumParams == Len(function.args)
NumArgs == Len(arguments.args)
HasArgsVar == function.args_var # NoValue

\* C4: with k declared parameters, no catch-all positional parameter and
\* j > k positional arguments, Scope::new fails with
\* WrongNumberOfArguments(k, j, call_stack), returns no Scope, and has
\* evaluated no default expression.
C4_TooManyArguments ==
    (Called /\ ~HasArgsVar /\ NumArgs > NumParams) =>
        /\ bpc = "returned"
        /\ bresult = [tag |-> "Err",
                      err |-> [kind |-> "WrongNumberOfArguments",
                               expected |-> NumParams, got |-> NumArgs,
                               call_stack |-> call_stack]]
        /\ eval_log = <<>>

C4_Witness ==
    /\ bpc = "returned"
    /\ ~HasArgsVar
    /\ NumArgs = NumParams + 1
    /\ NumParams >= 1
    /\ function.args[1].default # NoValue
    /\ bresult.tag = "Err"
    /\ bresult.err.kind = "WrongNumberOfArguments"

RECURSIVE ListedNames(_)
\* 'n1' and 'n2' and ... for the parameter definitions ps
ListedNames(ps) ==
    IF Len(ps) = 1 THEN "'" \o ps[1].arg \o "'"
    ELSE ListedNames(SubSeq(ps, 1, Len(ps) - 1)) \o " and '" \o ps[Len(ps)].arg \o "'"

\* C5: k required positional parameters, no catch-all positional parameter,
\* j < k positional arguments: Scope::new fails with the TypeError
\* "<name>() missing <count> required positional argument<s>: ..." listing the
\* unfilled parameters quoted, in declaration order, joined by " and ".
C5_MissingArguments ==
    (bpc = "returned" /\ ~HasArgsVar /\ NumArgs < NumParams
       /\ \A i \in 1..NumParams : function.args[i].default = NoValue) =>
        LET unfilled == SubSeq(function.args, NumArgs + 1, NumParams)
            count == NumParams - NumArgs
            text == function.name \o "() missing " \o ToString(count)
                      \o " required positional argument"
                      \o (IF count > 1 THEN "s" ELSE "") \o ": "
                      \o ListedNames(unfilled)
        IN  bresult = [tag |-> "Err",
                       err |-> [kind |-> "TypeError", message |-> Some(text),
                                call_stack |-> call_stack]]

C5_Witness ==
    /\ bpc = "returned"
    /\ ~HasArgsVar
    /\ NumParams = 3
    /\ NumArgs = 1
    /\ bresult.tag = "Err"
    /\ bresult.err.kind = "TypeError"
    /\ bresult.err.message
         = Some("f() missing 2 required positional arguments: 'c' and 'b'")

\* C6: with a catch-all positional parameter and j > k positional arguments,
\* Scope::new binds declared parameter i to the i-th positional value and the
\* catch-all name to the trailing j-k positional values in their order.
C6_CatchAllCapture ==
    (bpc = "returned" /\ HasArgsVar /\ NumArgs > NumParams) =>
        /\ bresult.tag = "Ok"
        /\ \A i \in 1..NumParams :
             get(bresult.ok, function.args[i].arg) = Some(arguments.args[i])
        /\ get(bresult.ok, function.args_var.some)
             = Some(Tuple(SubSeq(arguments.args, NumParams + 1, NumArgs)))

C6_Witness ==
    /\ bpc = "returned"
    /\ HasArgsVar
    /\ NumParams = 2
    /\ NumArgs = 4
    /\ bresult.tag = "Ok"
    /\ get(bresult.ok, "args") = Some(Tuple(<<Integer(3), Integer(4)>>))

\* The 0-based indices of the parameters without a positional value that
\* have a default expression, in declaration order
DefaultedIndices ==
    SelectSeq([i \in 1..NumParams |-> i - 1],
              LAMBDA i : i >= NumArgs /\ function.args[i + 1].default # NoValue)

DefaultFails(i) == evaluate_expr(function.args[i + 1].default.some).tag = "Err"

\* C7: during one Scope::new call each default expression is evaluated at
\* most once, only for parameters not covered by a positional value, in
\* declaration order; a failing default evaluation is returned at once as the
\* call's failure, no later default is evaluated and no Scope is returned.
C7_DefaultEvaluation ==
    Called =>
        LET D == DefaultedIndices
            n == Len(eval_log)
        IN  /\ n <= Len(D)
            /\ eval_log = SubSeq(D, 1, n)
            /\ \A i, j \in 1..n : i < j => eval_log[i] < eval_log[j]
            /\ \A i \in 1..n : eval_log[i] >= NumArgs
            /\ \A i \in 1..(n - 1) : ~DefaultFails(eval_log[i])
            /\ (n > 0 /\ DefaultFails(eval_log[n])) =>
                 /\ bpc = "returned"
                 /\ bresult = [tag |-> "Err",
                               err |-> evaluate_expr(
                                   function.args[eval_log[n] + 1].default.some).err]
            /\ (bpc = "returned" /\ bresult.tag = "Ok") =>
                 /\ n = Len(D)
                 /\ \A i \in 1..n : ~DefaultFails(eval_log[i])

C7_Witness ==
    /\ bpc = "returned"
    /\ NumParams = 3
    /\ NumArgs = 0
    /\ eval_log = <<0, 1>>
    /\ function.args[3].default # NoValue
    /\ bresult.tag = "Err"
    /\ bresult.err.kind = "NameError"

\* C10: with a catch-all positional parameter, j <= k arguments and every
\* unfilled parameter covered by a default, Scope::new succeeds and binds the
\* catch-all name to the empty sequence.
C10_EmptyCatchAll ==
    (bpc = "returned" /\ HasArgsVar /\ NumArgs <= NumParams
       /\ \A i \in (NumArgs + 1)..NumParams :
            /\ function.args[i].default # NoValue
            /\ ~DefaultFails(i - 1)) =>
        /\ bresult.tag = "Ok"
        /\ get(bresult.ok, function.args_var.some) = Some(Tuple(<<>>))

\* C8: from_dict over the items of s.as_dict() yields a Scope with the same
\* get(name) for every name and with empty global and nonlocal sets.
C8_RoundTrip ==
    last_op.op = "from_dict" =>
        /\ last_op.ret.tag = "Ok"
        /\ \A name \in Range(NamePool) : get(last_op.ret.ok, name) = get(s, name)
        /\ symbols(last_op.ret.ok) = symbols(s)
        /\ last_op.ret.ok.global_vars = {}
        /\ last_op.ret.ok.nonlocal_vars = {}

C8_Witness ==
    /\ last_op.op = "from_dict"
    /\ get(s, "a") = Some(Integer(1))
    /\ get(s, "b") = Some(String("a"))
    /\ has_global(s, "a")
    /\ has_nonlocal(s, "b")
    /\ last_op.ret.tag = "Ok"
    /\ get(last_op.ret.ok, "b") = Some(String("a"))

\* What the history says of s
MatchesHistory ==
    \A name \in Range(NamePool) :
        /\ get(s, name) = (IF name \in DOMAIN bound_hist THEN bound_hist[name]
                           ELSE NoValue)
        /\ has_global(s, name) <=> name \in global_hist
        /\ has_nonlocal(s, name) <=> name \in nonlocal_hist

\* What one step may change
FrameEffect ==
    /\ last_op'.op \in {"mark_global", "mark_nonlocal", "from_dict"} =>
         s'.symbol_table = s.symbol_table
    /\ last_op'.op \in {"insert", "delete", "from_dict"} =>
         /\ s'.global_vars = s.global_vars
         /\ s'.nonlocal_vars = s.nonlocal_vars
    /\ last_op'.op = "mark_global" => s'.nonlocal_vars = s.nonlocal_vars
    /\ last_op'.op = "mark_nonlocal" => s'.global_vars = s.global_vars
    /\ s.global_vars \subseteq s'.global_vars
    /\ s.nonlocal_vars \subseteq s'.nonlocal_vars

\* C9: mark_global and mark_nonlocal leave the symbol table unchanged, insert
\* and delete leave both directive sets unchanged, get(name) is the value of
\* the latest insert(name, _) not followed by delete(name) whether or not the
\* name is marked, and has_global / has_nonlocal holds exactly of the names
\* mark_global / mark_nonlocal was called with.
C9_DirectivesAreMetadata == [](MatchesHistory) /\ [][FrameEffect]_vars

C9_Witness ==
    /\ last_op.op = "mark_global"
    /\ has_global(s, "a")
    /\ get(s, "a") = NoValue
    /\ has_nonlocal(s, "b")
    /\ get(s, "b") = Some(Integer(1))

====
